---- MODULE Spec2Model ----
(***************************************************************************)
(* A model of bitaxe_status_logger.py: the settings write with its         *)
(* read-back verification, the operating-point table loader, the           *)
(* table-driven selector with its fallback cooldown, and the run           *)
(* controller (run_test) driven by main() in sweep and monitor mode.       *)
(*                                                                         *)
(* Operating points are <<voltage, frequency>> tuples, as in value_pairs.  *)
(* Table indices are 0-based as in the source; At(pairs, i) reads entry i. *)
(* Times are seconds.  An average hashrate sum/count is kept as the tuple  *)
(* <<sum, count>> and compared by cross-multiplication.                    *)
(***************************************************************************)
EXTENDS Integers, Sequences, FiniteSets, TLC

VARIABLES
    \* ---- command line (parse_arguments) and the table file
    initial_frequency, initial_core_voltage, freq_range, freq_step,
    reboot_threshold, monitor_mode, values_file, csv_rows, value_pairs, bitaxe_ip,
    \* ---- module globals
    is_interrupted, critical_temp_reached, system_info,
    best_hashrate, best_frequency, best_voltage,
    last_fallback_time, last_fallback_voltage,
    \* ---- run_test's parameters and locals
    frequency, core_voltage, run_number, start_time, reading_count,
    run_sum_values, run_count_values, last_hashrate,
    identical_hashrate_count, readings_since_adjustment,
    \* ---- the other aggregates of the hashRate key, and the readings kept
    run_min_values, run_max_values, global_min_values, global_max_values,
    hashrate_readings,
    \* ---- reading_count at the last adjustment applied in the run (0: none)
    last_adjustment_reading,
    \* ---- the reboots the run attempted: <<reading_count, succeeded>> each
    reboot_attempts,
    \* ---- control state, wall clock, and what the last step did
    total_tests, pc, now, polls, exit_code, sent, last_sent, step, runs

vars == <<initial_frequency, initial_core_voltage, freq_range, freq_step,
          reboot_threshold, monitor_mode, values_file, csv_rows, value_pairs, bitaxe_ip,
          is_interrupted, critical_temp_reached, system_info,
          best_hashrate, best_frequency, best_voltage,
          last_fallback_time, last_fallback_voltage,
          frequency, core_voltage, run_number, start_time, reading_count,
          run_sum_values, run_count_values, last_hashrate,
          identical_hashrate_count, readings_since_adjustment,
          run_min_values, run_max_values, global_min_values, global_max_values,
          hashrate_readings, last_adjustment_reading, reboot_attempts,
          total_tests, pc, now, polls, exit_code, sent, last_sent, step, runs>>

-----------------------------------------------------------------------------
(* CONFIG *)

run_duration == 600
status_interval == 10
max_temp_critical == 65
max_vrtemp_critical == 85
max_power_critical == 26
min_frequency == 400
min_core_voltage == 1000
critical_advance_margin == 2
readings_to_advance == 5
advance_delay == 7200

(* The fixed decrement of the emergency reduction (run_test). *)
emergency_decrement == 10
(* The verification tolerance of set_system_settings. *)
verify_tolerance == 1
(* Python's None, for the integer-valued globals and locals that start unset. *)
None == -1
\* float('inf'): above every reading (and -Infinity below every reading).
Infinity == 1000000

-----------------------------------------------------------------------------
(* Helpers *)

\* A slip: min and max exchanged.
Min2_as_max(a, b) == IF a >= b THEN a ELSE b
Min2(a, b) == IF a <= b THEN a ELSE b
Max2(a, b) == IF a >= b THEN a ELSE b
Abs(a) == IF a >= 0 THEN a ELSE -a
SetMin(S) == CHOOSE x \in S : \A y \in S : x <= y
At(pairs, i) == pairs[i + 1]
Last(s) == s[Len(s)]

-----------------------------------------------------------------------------
(* Safety evaluation of one telemetry sample (a record temp, vrTemp, power, *)
(* hashRate).                                                               *)

critical_hit(info) ==
    \/ info.temp >= max_temp_critical
    \/ info.vrTemp >= max_vrtemp_critical
    \/ info.power >= max_power_critical

(* A slip: the power draw is left out of the advance margin. *)
safe_margin_no_power(info) ==
    /\ info.temp <= max_temp_critical - critical_advance_margin
    /\ info.vrTemp <= max_vrtemp_critical - critical_advance_margin

safe_margin(info) ==
    /\ info.temp <= max_temp_critical - critical_advance_margin
    /\ info.vrTemp <= max_vrtemp_critical - critical_advance_margin
    /\ info.power <= max_power_critical - critical_advance_margin

-----------------------------------------------------------------------------
(* read_values_csv.  A file is a sequence of rows; a row is a record with   *)
(* kind "header" (two or more non-numeric cells), "data" (numeric voltage   *)
(* and frequency cells) or "blank" (fewer than two cells).                  *)

sort_insert(p, sorted) ==
    LET NotAfter(q) == q[1] <= p[1]
        After(q) == q[1] > p[1]
    IN SelectSeq(sorted, NotAfter) \o <<p>> \o SelectSeq(sorted, After)

RECURSIVE sort_by_voltage(_)
sort_by_voltage(pairs) ==
    IF pairs = <<>> THEN <<>>
    ELSE sort_insert(Last(pairs), sort_by_voltage(SubSeq(pairs, 1, Len(pairs) - 1)))

RECURSIVE parse_rows(_)
parse_rows(rows) ==
    IF rows = <<>> THEN <<>>
    ELSE LET row == Head(rows)
             rest == parse_rows(Tail(rows))
         IN IF row.kind = "data" THEN <<<<row.voltage, row.frequency>>>> \o rest
            ELSE rest

skip_first_row(rows) == IF rows = <<>> THEN <<>> ELSE Tail(rows)

read_values_csv(rows) ==
    LET body == skip_first_row(rows)
        unparsable == \E i \in 1..Len(body) : body[i].kind = "header"
        pairs == sort_by_voltage(parse_rows(body))
    IN IF unparsable \/ pairs = <<>>
       THEN [ok |-> FALSE, value_pairs |-> IF unparsable THEN <<>> ELSE pairs]
       ELSE [ok |-> TRUE, value_pairs |-> pairs]

-----------------------------------------------------------------------------
(* validate_ip.  An address is the sequence of its dot-separated fields;   *)
(* a field is its length and whether it is all digits.  The pattern        *)
(* accepts four fields of one to three digits.                             *)

Field(length, digits) == [length |-> length, digits |-> digits]
DeviceAddress == <<Field(3, TRUE), Field(3, TRUE), Field(1, TRUE), Field(3, TRUE)>>
validate_ip(ip) ==
    [ok |-> /\ Len(ip) = 4
            /\ \A i \in 1..Len(ip) : ip[i].digits /\ ip[i].length \in 1..3,
     url |-> <<"http://", ip>>]

-----------------------------------------------------------------------------
(* set_system_settings.  reply is what the device does with the request:    *)
(* whether the PATCH and the read-back GET succeed, and the frequency and   *)
(* coreVoltage the read-back reports.  The result carries the payload sent. *)

(* A slip: the frequency is sent as requested, unclamped. *)
clamp_frequency_none(freq) == freq

clamp_frequency(freq) == Max2(min_frequency, freq)
clamp_core_voltage(volt) == Max2(min_core_voltage, volt)

(* A slip: only the frequency is compared with the read-back. *)
settings_verified_frequency_only(payload, reply) ==
    ~ (Abs(reply.frequency - payload.frequency) > verify_tolerance)

settings_verified(payload, reply) ==
    ~ (\/ Abs(reply.frequency - payload.frequency) > verify_tolerance
       \/ Abs(reply.coreVoltage - payload.coreVoltage) > verify_tolerance)

set_system_settings(freq, volt, reply) ==
    LET payload == [frequency |-> clamp_frequency(freq),
                    coreVoltage |-> clamp_core_voltage(volt)]
    IN [payload |-> payload,
        ok |-> reply.patch_ok /\ reply.get_ok /\ settings_verified(payload, reply)]

-----------------------------------------------------------------------------
(* adjust_settings_based_on_values.  info is the sample just fetched and t  *)
(* the wall clock of the call; the table and the fallback state are the     *)
(* globals.  The result carries the returned point, the fallback state      *)
(* after the call, the derived index and the return statement taken.        *)

(* A slip: the scan stops at the first entry above the current voltage,    *)
(* so an entry at the current voltage is the one chosen.                   *)
current_index_at_or_below(pairs, freq, volt) ==
    LET n == Len(pairs)
        exact == {i \in 0..(n - 1) : At(pairs, i) = <<volt, freq>>}
        above == {i \in 0..(n - 1) : At(pairs, i)[1] > volt}
    IN IF exact # {} THEN SetMin(exact)
       ELSE IF above # {} THEN Max2(0, SetMin(above) - 1)
       ELSE n - 1

(* A slip: a pair that is not in the table is given index 0 without a scan. *)
current_index_unscanned(pairs, freq, volt) ==
    LET n == Len(pairs)
        exact == {i \in 0..(n - 1) : At(pairs, i) = <<volt, freq>>}
    IN IF exact # {} THEN SetMin(exact) ELSE 0

current_index(pairs, freq, volt) ==
    LET n == Len(pairs)
        exact == {i \in 0..(n - 1) : At(pairs, i) = <<volt, freq>>}
        notBelow == {i \in 0..(n - 1) : At(pairs, i)[1] >= volt}
    IN IF exact # {} THEN SetMin(exact)
       ELSE IF notBelow # {} THEN Max2(0, SetMin(notBelow) - 1)
       ELSE n - 1

(* A slip: the fallback drops to the first entry instead of the one below. *)
critical_fallback_to_lowest(pairs, idx, freq, volt, t) ==
    IF idx > 0
    THEN [frequency |-> At(pairs, 0)[2], core_voltage |-> At(pairs, 0)[1],
          last_fallback_time |-> t, last_fallback_voltage |-> volt,
          current_index |-> idx, branch |-> "drop"]
    ELSE [frequency |-> freq, core_voltage |-> volt,
          last_fallback_time |-> last_fallback_time,
          last_fallback_voltage |-> last_fallback_voltage,
          current_index |-> idx, branch |-> "lowest"]

(* A slip: the fallback records the voltage dropped to, not the one left. *)
critical_fallback_recording_new(pairs, idx, freq, volt, t) ==
    IF idx > 0
    THEN [frequency |-> At(pairs, idx - 1)[2], core_voltage |-> At(pairs, idx - 1)[1],
          last_fallback_time |-> t, last_fallback_voltage |-> At(pairs, idx - 1)[1],
          current_index |-> idx, branch |-> "drop"]
    ELSE [frequency |-> freq, core_voltage |-> volt,
          last_fallback_time |-> last_fallback_time,
          last_fallback_voltage |-> last_fallback_voltage,
          current_index |-> idx, branch |-> "lowest"]

critical_fallback(pairs, idx, freq, volt, t) ==
    IF idx > 0
    THEN [frequency |-> At(pairs, idx - 1)[2], core_voltage |-> At(pairs, idx - 1)[1],
          last_fallback_time |-> t, last_fallback_voltage |-> volt,
          current_index |-> idx, branch |-> "drop"]
    ELSE [frequency |-> freq, core_voltage |-> volt,
          last_fallback_time |-> last_fallback_time,
          last_fallback_voltage |-> last_fallback_voltage,
          current_index |-> idx, branch |-> "lowest"]

(* A slip: the cooldown lasts status_interval instead of advance_delay. *)
cooldown_active_short(t) ==
    /\ last_fallback_time # None
    /\ last_fallback_voltage # None
    /\ t - last_fallback_time < status_interval

cooldown_active(t) ==
    /\ last_fallback_time # None
    /\ last_fallback_voltage # None
    /\ t - last_fallback_time < advance_delay

(* A slip: the cooldown blocks only voltages above the fallback voltage. *)
can_advance_strict(pairs, idx, volt, t) ==
    IF cooldown_active(t)
    THEN LET next_voltage == IF idx < Len(pairs) - 1 THEN At(pairs, idx + 1)[1] ELSE volt
         IN ~ (next_voltage > last_fallback_voltage)
    ELSE TRUE

can_advance(pairs, idx, volt, t) ==
    IF cooldown_active(t)
    THEN LET next_voltage == IF idx < Len(pairs) - 1 THEN At(pairs, idx + 1)[1] ELSE volt
         IN ~ (next_voltage >= last_fallback_voltage)
    ELSE TRUE

advance_or_hold(pairs, idx, freq, volt, info, t) ==
    IF safe_margin(info) /\ can_advance(pairs, idx, volt, t) /\ idx < Len(pairs) - 1
    THEN [frequency |-> At(pairs, idx + 1)[2], core_voltage |-> At(pairs, idx + 1)[1],
          last_fallback_time |-> last_fallback_time,
          last_fallback_voltage |-> last_fallback_voltage,
          current_index |-> idx, branch |-> "advance"]
    ELSE [frequency |-> freq, core_voltage |-> volt,
          last_fallback_time |-> last_fallback_time,
          last_fallback_voltage |-> last_fallback_voltage,
          current_index |-> idx, branch |-> "hold"]

adjust_settings_based_on_values(freq, volt, info, t) ==
    IF value_pairs = <<>>
    THEN [frequency |-> freq, core_voltage |-> volt,
          last_fallback_time |-> last_fallback_time,
          last_fallback_voltage |-> last_fallback_voltage,
          current_index |-> None, branch |-> "no_values"]
    ELSE LET idx == current_index(value_pairs, freq, volt)
         IN IF critical_hit(info)
            THEN critical_fallback(value_pairs, idx, freq, volt, t)
            ELSE advance_or_hold(value_pairs, idx, freq, volt, info, t)

-----------------------------------------------------------------------------
(* Bounds of the model and the inputs the environment draws from. *)

MaxRange == 1          \* freq_range is drawn from 0..MaxRange
MaxStep == 3           \* freq_step is drawn from 1..MaxStep
MaxMonitorPolls == 7   \* polls of a monitor run without a table that the model follows
MaxTablePolls == 11    \* polls of a table-driven monitor run that the model follows
MaxRows == 3           \* rows of a table file after its optional header
MaxTable == 3          \* entries of a table in the selector's specification
MaxConsults == 2       \* consultations in the selector's specification

InitPoints == {<<min_core_voltage + 5, min_frequency>>,
               <<min_core_voltage + 100, min_frequency + 11>>}
RebootThresholds == {None, 1, 2}

(* Telemetry: each metric sits at its critical threshold, inside the       *)
(* advance margin, or at the edge of the margin.                           *)
Sample(t, vr, p, h) == [temp |-> t, vrTemp |-> vr, power |-> p, hashRate |-> h]
SafeSample(h) ==
    Sample(max_temp_critical - critical_advance_margin,
           max_vrtemp_critical - critical_advance_margin,
           max_power_critical - critical_advance_margin, h)
Samples(hashRates) ==
    UNION {{SafeSample(h),
            [SafeSample(h) EXCEPT !.temp = max_temp_critical - 1],
            [SafeSample(h) EXCEPT !.vrTemp = max_vrtemp_critical - 1],
            [SafeSample(h) EXCEPT !.power = max_power_critical - 1],
            [SafeSample(h) EXCEPT !.temp = max_temp_critical],
            [SafeSample(h) EXCEPT !.vrTemp = max_vrtemp_critical],
            [SafeSample(h) EXCEPT !.power = max_power_critical + 1]} : h \in hashRates}
NoSample == Sample(None, None, None, None)

(* What the device may answer to a settings write of (freq, volt). *)
Reply(p, g, f, v) == [patch_ok |-> p, get_ok |-> g, frequency |-> f, coreVoltage |-> v]
ReadbackOffsets == {-10, -2, -1, 0, 1, 2}
DeviceReplies(freq, volt) ==
    {Reply(p, g, f, v) :
        p \in BOOLEAN, g \in BOOLEAN,
        f \in {clamp_frequency(freq) + d : d \in ReadbackOffsets} \cup {0},
        v \in {clamp_core_voltage(volt) + d : d \in ReadbackOffsets} \cup {0}}
RunReplies(freq, volt) ==
    {Reply(TRUE, TRUE, clamp_frequency(freq), clamp_core_voltage(volt)),
     Reply(TRUE, TRUE, clamp_frequency(freq) - 10, clamp_core_voltage(volt))}

(* Table files: an optional header row, then data and blank rows. *)
HeaderRow == [kind |-> "header", voltage |-> None, frequency |-> None]
BlankRow == [kind |-> "blank", voltage |-> None, frequency |-> None]
DataRow(v, f) == [kind |-> "data", voltage |-> v, frequency |-> f]
PairPool == {<<1050, 450>>, <<1100, 500>>, <<1150, 550>>}
RowPool == {DataRow(p[1], p[2]) : p \in PairPool} \cup {BlankRow}
SeqsUpTo(S, n) == UNION {[1..k -> S] : k \in 0..n}
CsvFiles == {h \o b : h \in {<<>>, <<HeaderRow>>}, b \in SeqsUpTo(RowPool, MaxRows)}

IsSorted(pairs) == \A i \in 1..(Len(pairs) - 1) : pairs[i][1] <= pairs[i + 1][1]
Tables == {t \in SeqsUpTo(PairPool, MaxTable) : t # <<>> /\ IsSorted(t)}

(* The tables main() runs with in the model. *)
RunTables == {<<<<990, 390>>, <<1050, 450>>, <<1100, 500>>>>,
              <<<<1100, 500>>, <<1150, 550>>, <<1200, 575>>>>}

-----------------------------------------------------------------------------
(* Averages.  A float average is the value sum/count: the reduced fraction. *)

RECURSIVE gcd(_, _)
gcd(a, b) == IF b = 0 THEN a ELSE gcd(b, a % b)
average(sum, count) == <<sum \div gcd(sum, count), count \div gcd(sum, count)>>
greater(x, y) == x[1] * y[2] > y[1] * x[2]
ZeroAverage == <<0, 1>>

(* A slip: a later run with an equal average replaces the stored best. *)
update_best_or_equal(sum, count, freq, volt) ==
    IF ~monitor_mode /\ count > 0 /\ ~greater(best_hashrate, average(sum, count))
    THEN [best_hashrate |-> average(sum, count), best_frequency |-> freq, best_voltage |-> volt]
    ELSE [best_hashrate |-> best_hashrate, best_frequency |-> best_frequency,
          best_voltage |-> best_voltage]

(* A slip: the stored best is updated in monitor mode too. *)
update_best_any_mode(sum, count, freq, volt) ==
    IF count > 0 /\ greater(average(sum, count), best_hashrate)
    THEN [best_hashrate |-> average(sum, count), best_frequency |-> freq, best_voltage |-> volt]
    ELSE [best_hashrate |-> best_hashrate, best_frequency |-> best_frequency,
          best_voltage |-> best_voltage]

(* run_test's update of BestResult at the end of a run or at a critical stop. *)
update_best(sum, count, freq, volt) ==
    IF ~monitor_mode /\ count > 0 /\ greater(average(sum, count), best_hashrate)
    THEN [best_hashrate |-> average(sum, count), best_frequency |-> freq, best_voltage |-> volt]
    ELSE [best_hashrate |-> best_hashrate, best_frequency |-> best_frequency,
          best_voltage |-> best_voltage]

(* The restore of the best-known or the initial settings: the calls of      *)
(* set_system_settings it makes, in order.                                  *)
restore_settings(use_best, best_f, best_v, reply1, reply2) ==
    IF use_best /\ best_f # None /\ best_v # None
    THEN LET a == set_system_settings(best_f, best_v, reply1)
         IN IF a.ok THEN <<a>>
            ELSE <<a, set_system_settings(initial_frequency, initial_core_voltage, reply2)>>
    ELSE <<set_system_settings(initial_frequency, initial_core_voltage, reply1)>>

(* The identical-hashrate tracking of one reading. *)
(* A slip: the counter is not reset after a successful reboot. *)
reboot_detection_no_reset(current_hashrate, reboot_ok) ==
    IF reboot_threshold = None
    THEN [last_hashrate |-> last_hashrate, count |-> identical_hashrate_count, reboot |-> "none"]
    ELSE IF current_hashrate = last_hashrate
    THEN IF identical_hashrate_count + 1 >= reboot_threshold
         THEN [last_hashrate |-> last_hashrate, count |-> identical_hashrate_count + 1,
               reboot |-> IF reboot_ok THEN "done" ELSE "failed"]
         ELSE [last_hashrate |-> last_hashrate, count |-> identical_hashrate_count + 1,
               reboot |-> "none"]
    ELSE [last_hashrate |-> current_hashrate, count |-> 1, reboot |-> "none"]

reboot_detection(current_hashrate, reboot_ok) ==
    IF reboot_threshold = None
    THEN [last_hashrate |-> last_hashrate, count |-> identical_hashrate_count, reboot |-> "none"]
    ELSE IF current_hashrate = last_hashrate
    THEN IF identical_hashrate_count + 1 >= reboot_threshold
         THEN IF reboot_ok
              THEN [last_hashrate |-> None, count |-> 0, reboot |-> "done"]
              ELSE [last_hashrate |-> last_hashrate, count |-> identical_hashrate_count + 1,
                    reboot |-> "failed"]
         ELSE [last_hashrate |-> last_hashrate, count |-> identical_hashrate_count + 1,
               reboot |-> "none"]
    ELSE [last_hashrate |-> current_hashrate, count |-> 1, reboot |-> "none"]

-----------------------------------------------------------------------------
(* main() and run_test() *)

argVars == <<initial_frequency, initial_core_voltage, reboot_threshold, monitor_mode,
             values_file, csv_rows, value_pairs, bitaxe_ip>>
bestVars == <<best_hashrate, best_frequency, best_voltage>>
fallbackVars == <<last_fallback_time, last_fallback_voltage>>
rebootVars == <<last_hashrate, identical_hashrate_count, reboot_attempts>>
aggregateVars == <<run_sum_values, run_count_values, reading_count, run_min_values,
                   run_max_values, global_min_values, global_max_values,
                   hashrate_readings>>
runVars == <<start_time, polls, aggregateVars, rebootVars, readings_since_adjustment,
             last_adjustment_reading>>

(* What the last step did: its kind and, for a consultation of the        *)
(* selector, the point and time it was called with and what it returned;  *)
(* whether it wrote the run's summary to the summaries file.              *)
NoSel == [frequency |-> None, core_voltage |-> None, last_fallback_time |-> None,
          last_fallback_voltage |-> None, current_index |-> None, branch |-> "none"]
Step(kind) == [kind |-> kind, frequency |-> None, core_voltage |-> None,
               time |-> None, sel |-> NoSel, summary |-> FALSE]
Consulted(kind, r) == [kind |-> kind, frequency |-> frequency, core_voltage |-> core_voltage,
                       time |-> now, sel |-> r, summary |-> FALSE]

NoPayload == [frequency |-> None, coreVoltage |-> None]

InitGlobals ==
    /\ is_interrupted = FALSE
    /\ critical_temp_reached = FALSE
    /\ system_info = NoSample
    /\ best_hashrate = ZeroAverage
    /\ best_frequency = None
    /\ best_voltage = None
    /\ last_fallback_time = None
    /\ last_fallback_voltage = None
    /\ frequency = None
    /\ core_voltage = None
    /\ run_number = 0
    /\ start_time = None
    /\ reading_count = 0
    /\ run_sum_values = 0
    /\ run_count_values = 0
    /\ run_min_values = Infinity
    /\ run_max_values = -Infinity
    /\ global_min_values = Infinity
    /\ global_max_values = -Infinity
    /\ hashrate_readings = <<>>
    /\ last_hashrate = None
    /\ identical_hashrate_count = 0
    /\ reboot_attempts = <<>>
    /\ readings_since_adjustment = 0
    /\ last_adjustment_reading = 0
    /\ total_tests = 0
    /\ now = 0
    /\ polls = 0
    /\ exit_code = None
    /\ sent = <<>>
    /\ last_sent = NoPayload
    /\ runs = <<>>

Init ==
    /\ InitGlobals
    /\ \E p \in InitPoints : initial_core_voltage = p[1] /\ initial_frequency = p[2]
    /\ monitor_mode \in BOOLEAN
    /\ values_file \in (IF monitor_mode THEN BOOLEAN ELSE {FALSE})
    /\ freq_range \in (IF monitor_mode THEN {MaxRange} ELSE 0..MaxRange)
    /\ freq_step \in (IF monitor_mode THEN {MaxStep} ELSE 1..MaxStep)
    /\ reboot_threshold \in (IF ~values_file /\ (monitor_mode \/ freq_range = 0)
                              THEN RebootThresholds ELSE {None})
    /\ value_pairs \in (IF values_file THEN RunTables ELSE {<<>>})
    /\ csv_rows = <<>>
    /\ bitaxe_ip = validate_ip(DeviceAddress).url
    /\ pc = "main"
    /\ step = Step("init")

(* A slip: main() goes on to the runs when the initial settings fail. *)
MainInitialApply_continuing ==
    /\ pc = "main"
    /\ LET range == IF monitor_mode THEN 0 ELSE freq_range
           stepsize == IF monitor_mode THEN 1 ELSE freq_step
           start_frequency == IF monitor_mode THEN initial_frequency
                              ELSE initial_frequency - range
       IN \E reply \in RunReplies(start_frequency, initial_core_voltage) :
            LET a == set_system_settings(start_frequency, initial_core_voltage, reply)
            IN /\ freq_range' = range
               /\ freq_step' = stepsize
               /\ total_tests' = IF monitor_mode THEN 1
                                 ELSE ((initial_frequency + range)
                                       - (initial_frequency - range)) \div stepsize + 1
               /\ sent' = <<a>>
               /\ last_sent' = a.payload
               /\ step' = Step("initial_apply")
               /\ pc' = "run_test"
               /\ frequency' = start_frequency
               /\ core_voltage' = initial_core_voltage
               /\ run_number' = 1
               /\ UNCHANGED exit_code
    /\ UNCHANGED <<argVars, is_interrupted, critical_temp_reached, system_info, bestVars,
                   fallbackVars, runVars, now, runs>>

(* main(), up to the first call of run_test. *)
MainInitialApply ==
    /\ pc = "main"
    /\ LET range == IF monitor_mode THEN 0 ELSE freq_range
           stepsize == IF monitor_mode THEN 1 ELSE freq_step
           start_frequency == IF monitor_mode THEN initial_frequency
                              ELSE initial_frequency - range
       IN \E reply \in RunReplies(start_frequency, initial_core_voltage) :
            LET a == set_system_settings(start_frequency, initial_core_voltage, reply)
            IN /\ freq_range' = range
               /\ freq_step' = stepsize
               /\ total_tests' = IF monitor_mode THEN 1
                                 ELSE ((initial_frequency + range)
                                       - (initial_frequency - range)) \div stepsize + 1
               /\ sent' = <<a>>
               /\ last_sent' = a.payload
               /\ step' = Step("initial_apply")
               /\ IF a.ok
                  THEN /\ pc' = "run_test"
                       /\ frequency' = start_frequency
                       /\ core_voltage' = initial_core_voltage
                       /\ run_number' = 1
                       /\ UNCHANGED exit_code
                  ELSE /\ pc' = "exited"
                       /\ exit_code' = 1
                       /\ UNCHANGED <<frequency, core_voltage, run_number>>
    /\ UNCHANGED <<argVars, is_interrupted, critical_temp_reached, system_info, bestVars,
                   fallbackVars, runVars, now, runs>>

(* A slip: main() breaks on interruption only, not on a critical stop. *)
ReturnToMain_ignoring_critical(interrupted, critical) ==
    IF \/ monitor_mode
       \/ interrupted
       \/ frequency + freq_step > initial_frequency + freq_range
    THEN /\ pc' = "restore"
         /\ UNCHANGED <<frequency, core_voltage, run_number>>
    ELSE /\ pc' = "run_test"
         /\ frequency' = frequency + freq_step
         /\ core_voltage' = initial_core_voltage
         /\ run_number' = run_number + 1

(* A slip: the range ends before its upper end (range() without the + 1). *)
ReturnToMain_exclusive(interrupted, critical) ==
    IF \/ monitor_mode
       \/ interrupted
       \/ critical
       \/ frequency + freq_step >= initial_frequency + freq_range
    THEN /\ pc' = "restore"
         /\ UNCHANGED <<frequency, core_voltage, run_number>>
    ELSE /\ pc' = "run_test"
         /\ frequency' = frequency + freq_step
         /\ core_voltage' = initial_core_voltage
         /\ run_number' = run_number + 1

(* A slip: the sweep does not stop at the end of the range. *)
ReturnToMain_unbounded(interrupted, critical) ==
    IF \/ monitor_mode
       \/ interrupted
       \/ critical
    THEN /\ pc' = "restore"
         /\ UNCHANGED <<frequency, core_voltage, run_number>>
    ELSE /\ pc' = "run_test"
         /\ frequency' = frequency + freq_step
         /\ core_voltage' = initial_core_voltage
         /\ run_number' = run_number + 1

(* main() after run_test returned: the next frequency of the range, or the *)
(* end of the loop.                                                        *)
ReturnToMain(interrupted, critical) ==
    IF \/ monitor_mode
       \/ interrupted
       \/ critical
       \/ frequency + freq_step > initial_frequency + freq_range
    THEN /\ pc' = "restore"
         /\ UNCHANGED <<frequency, core_voltage, run_number>>
    ELSE /\ pc' = "run_test"
         /\ frequency' = frequency + freq_step
         /\ core_voltage' = initial_core_voltage
         /\ run_number' = run_number + 1

(* The history of the calls of run_test: the point each was called with,   *)
(* whether its settings were applied, and its average hashrate so far.     *)
NoAverage == <<0, 0>>
NewRun == [frequency |-> frequency, core_voltage |-> core_voltage,
           started |-> FALSE, average |-> NoAverage]
RecordReading(h) ==
    [runs EXCEPT ![Len(runs)].average = average(run_sum_values + h, run_count_values + 1)]

(* A slip: a run whose settings cannot be applied ends the sweep. *)
RunStart_aborting ==
    /\ pc = "run_test"
    /\ \E reply \in RunReplies(frequency, core_voltage) :
         LET a == set_system_settings(frequency, core_voltage, reply)
         IN /\ sent' = <<a>>
            /\ last_sent' = a.payload
            /\ step' = Step("run_start")
            /\ IF a.ok
               THEN /\ pc' = "polling"
                    /\ runs' = Append(runs, [NewRun EXCEPT !.started = TRUE])
                    /\ start_time' = now
                    /\ reading_count' = 0
                    /\ run_sum_values' = 0
                    /\ run_count_values' = 0
                    /\ run_min_values' = Infinity
                    /\ run_max_values' = -Infinity
                    /\ hashrate_readings' = <<>>
                    /\ UNCHANGED <<global_min_values, global_max_values>>
                    /\ last_hashrate' = None
                    /\ identical_hashrate_count' = 0
                    /\ reboot_attempts' = <<>>
                    /\ readings_since_adjustment' = 0
                    /\ last_adjustment_reading' = 0
                    /\ polls' = 0
                    /\ UNCHANGED <<frequency, core_voltage, run_number>>
               ELSE /\ runs' = Append(runs, NewRun)
                    /\ pc' = "restore"
                    /\ UNCHANGED <<frequency, core_voltage, run_number>>
                    /\ UNCHANGED runVars
    /\ UNCHANGED <<argVars, freq_range, freq_step, total_tests, is_interrupted,
                   critical_temp_reached, system_info, bestVars, fallbackVars, now, exit_code>>

(* run_test, up to the polling loop. *)
RunStart ==
    /\ pc = "run_test"
    /\ \E reply \in RunReplies(frequency, core_voltage) :
         LET a == set_system_settings(frequency, core_voltage, reply)
         IN /\ sent' = <<a>>
            /\ last_sent' = a.payload
            /\ step' = Step("run_start")
            /\ IF a.ok
               THEN /\ pc' = "polling"
                    /\ runs' = Append(runs, [NewRun EXCEPT !.started = TRUE])
                    /\ start_time' = now
                    /\ reading_count' = 0
                    /\ run_sum_values' = 0
                    /\ run_count_values' = 0
                    /\ run_min_values' = Infinity
                    /\ run_max_values' = -Infinity
                    /\ hashrate_readings' = <<>>
                    /\ UNCHANGED <<global_min_values, global_max_values>>
                    /\ last_hashrate' = None
                    /\ identical_hashrate_count' = 0
                    /\ reboot_attempts' = <<>>
                    /\ readings_since_adjustment' = 0
                    /\ last_adjustment_reading' = 0
                    /\ polls' = 0
                    /\ UNCHANGED <<frequency, core_voltage, run_number>>
               ELSE /\ runs' = Append(runs, NewRun)
                    /\ ReturnToMain(is_interrupted, critical_temp_reached)
                    /\ UNCHANGED runVars
    /\ UNCHANGED <<argVars, freq_range, freq_step, total_tests, is_interrupted,
                   critical_temp_reached, system_info, bestVars, fallbackVars, now, exit_code>>

(* A slip: the time budget applies to monitor runs too. *)
budget_left_timed == now - start_time < run_duration

(* A slip: the loop does not look at the interruption flag. *)
loop_condition_uninterruptible == monitor_mode \/ now - start_time < run_duration

(* The condition of run_test's while loop. *)
budget_left == monitor_mode \/ now - start_time < run_duration
loop_condition == budget_left /\ ~is_interrupted

(* How long one poll takes: at least the sleep of status_interval.  A poll  *)
(* of a sweep run takes half of the run's budget, so that a run has two     *)
(* polls; a poll of a monitor run takes status_interval, or advance_delay   *)
(* once a fallback is recorded (the cooldown may run out).                  *)
PollTimes ==
    IF ~monitor_mode THEN {run_duration \div 2}
    ELSE IF last_fallback_time # None THEN {status_interval, advance_delay}
    ELSE {status_interval}
(* The readings of a run.  A table-driven run reads a steady hashrate with *)
(* a safe, a warm or a critical temperature; the other runs read two       *)
(* hashrates and a critical temperature or power.                          *)
RunSamples ==
    IF values_file
    THEN {SafeSample(1),
          [SafeSample(1) EXCEPT !.temp = max_temp_critical - 1],
          [SafeSample(1) EXCEPT !.temp = max_temp_critical]}
    ELSE {SafeSample(0), SafeSample(1),
          [SafeSample(1) EXCEPT !.temp = max_temp_critical - 1],
          [SafeSample(1) EXCEPT !.temp = max_temp_critical],
          [SafeSample(0) EXCEPT !.power = max_power_critical]}

Polling ==
    /\ pc = "polling"
    /\ loop_condition
    /\ monitor_mode => polls < (IF values_file THEN MaxTablePolls ELSE MaxMonitorPolls)

(* A slip: a failed fetch is counted as a reading. *)
PollFetchFailed_counting ==
    /\ pc = "polling"
    /\ loop_condition
    /\ monitor_mode => polls < (IF values_file THEN MaxTablePolls ELSE MaxMonitorPolls)
    /\ \E d \in PollTimes : now' = now + d
    /\ polls' = polls + 1
    /\ reading_count' = reading_count + 1
    /\ readings_since_adjustment' = readings_since_adjustment + 1
    /\ sent' = <<>>
    /\ step' = Step("fetch_failed")
    /\ UNCHANGED <<argVars, freq_range, freq_step, total_tests, is_interrupted,
                   critical_temp_reached, system_info, bestVars, fallbackVars,
                   frequency, core_voltage, run_number, start_time, run_sum_values,
                   run_count_values, run_min_values, run_max_values, global_min_values,
                   global_max_values, hashrate_readings, rebootVars,
                   last_adjustment_reading, pc, exit_code, last_sent, runs>>

(* One iteration whose fetch_system_info fails. *)
PollFetchFailed ==
    /\ Polling
    /\ \E d \in PollTimes : now' = now + d
    /\ polls' = polls + 1
    /\ sent' = <<>>
    /\ step' = Step("fetch_failed")
    /\ UNCHANGED <<argVars, freq_range, freq_step, total_tests, is_interrupted,
                   critical_temp_reached, system_info, bestVars, fallbackVars,
                   frequency, core_voltage, run_number, start_time, aggregateVars,
                   rebootVars, readings_since_adjustment, last_adjustment_reading, pc,
                   exit_code, last_sent, runs>>

(* fetch_system_info's update and the reboot detection of one reading. *)
TakeReading(info, reboot_ok) ==
    /\ system_info' = info
    /\ run_sum_values' = run_sum_values + info.hashRate
    /\ run_count_values' = run_count_values + 1
    /\ run_min_values' = Min2(run_min_values, info.hashRate)
    /\ run_max_values' = Max2(run_max_values, info.hashRate)
    /\ global_min_values' = Min2(global_min_values, info.hashRate)
    /\ global_max_values' = Max2(global_max_values, info.hashRate)
    /\ hashrate_readings' = Append(hashrate_readings, info.hashRate)
    /\ reading_count' = reading_count + 1
    /\ runs' = RecordReading(info.hashRate)
    /\ last_hashrate' = reboot_detection(info.hashRate, reboot_ok).last_hashrate
    /\ identical_hashrate_count' = reboot_detection(info.hashRate, reboot_ok).count
    /\ reboot_attempts' =
          IF reboot_detection(info.hashRate, reboot_ok).reboot = "none" THEN reboot_attempts
          ELSE Append(reboot_attempts, <<reading_count + 1, reboot_ok>>)
    /\ polls' = polls + 1

\* A slip: the selector is consulted at every reading.
consults_always == monitor_mode /\ values_file

(* run_test's test for consulting the selector in an iteration. *)
consults == monitor_mode /\ values_file /\ readings_since_adjustment >= readings_to_advance

(* One iteration with a reading, no consultation and no critical stop. *)
PollReading ==
    /\ Polling
    /\ ~consults
    /\ \E info \in RunSamples, reboot_ok \in BOOLEAN, d \in PollTimes :
         /\ values_file \/ ~critical_hit(info)
         /\ TakeReading(info, reboot_ok)
         /\ now' = now + d
         /\ step' = [Step("reading") EXCEPT
                        !.kind = IF reboot_detection(info.hashRate, reboot_ok).reboot = "none"
                                 THEN "reading" ELSE "reading_reboot"]
    /\ readings_since_adjustment' = readings_since_adjustment + 1
    /\ sent' = <<>>
    /\ UNCHANGED <<argVars, freq_range, freq_step, total_tests, is_interrupted,
                   critical_temp_reached, bestVars, fallbackVars, frequency, core_voltage,
                   run_number, start_time, last_adjustment_reading, pc, exit_code,
                   last_sent>>

(* A slip: the proposed point is tracked whether or not its write succeeded. *)
PollConsult_unchecked ==
    /\ Polling
    /\ consults
    /\ \E info \in RunSamples, reboot_ok \in BOOLEAN, d \in PollTimes :
         LET r == adjust_settings_based_on_values(frequency, core_voltage, info, now)
             changed == r.frequency # frequency \/ r.core_voltage # core_voltage
         IN /\ TakeReading(info, reboot_ok)
            /\ now' = now + d
            /\ last_fallback_time' = r.last_fallback_time
            /\ last_fallback_voltage' = r.last_fallback_voltage
            /\ IF changed
               THEN \E reply \in RunReplies(r.frequency, r.core_voltage) :
                      LET a == set_system_settings(r.frequency, r.core_voltage, reply)
                      IN /\ sent' = <<a>>
                         /\ last_sent' = a.payload
                         /\ IF a.ok
                            THEN /\ frequency' = r.frequency
                                 /\ core_voltage' = r.core_voltage
                                 /\ readings_since_adjustment' = 0 + 1
                                 /\ last_adjustment_reading' = reading_count + 1
                                 /\ step' = Consulted("adjusted", r)
                            ELSE /\ frequency' = r.frequency
                                 /\ core_voltage' = r.core_voltage
                                 /\ readings_since_adjustment' = readings_since_adjustment + 1
                                 /\ step' = Consulted("adjust_failed", r)
                                 /\ UNCHANGED last_adjustment_reading
               ELSE /\ sent' = <<>>
                    /\ readings_since_adjustment' = readings_since_adjustment + 1
                    /\ step' = Consulted("consulted", r)
                    /\ UNCHANGED <<frequency, core_voltage, last_sent,
                                   last_adjustment_reading>>
    /\ UNCHANGED <<argVars, freq_range, freq_step, total_tests, is_interrupted,
                   critical_temp_reached, bestVars, run_number, start_time, pc, exit_code>>

(* One iteration with a reading in which the selector is consulted. *)
PollConsult ==
    /\ Polling
    /\ consults
    /\ \E info \in RunSamples, reboot_ok \in BOOLEAN, d \in PollTimes :
         LET r == adjust_settings_based_on_values(frequency, core_voltage, info, now)
             changed == r.frequency # frequency \/ r.core_voltage # core_voltage
         IN /\ TakeReading(info, reboot_ok)
            /\ now' = now + d
            /\ last_fallback_time' = r.last_fallback_time
            /\ last_fallback_voltage' = r.last_fallback_voltage
            /\ IF changed
               THEN \E reply \in RunReplies(r.frequency, r.core_voltage) :
                      LET a == set_system_settings(r.frequency, r.core_voltage, reply)
                      IN /\ sent' = <<a>>
                         /\ last_sent' = a.payload
                         /\ IF a.ok
                            THEN /\ frequency' = r.frequency
                                 /\ core_voltage' = r.core_voltage
                                 /\ readings_since_adjustment' = 0 + 1
                                 /\ last_adjustment_reading' = reading_count + 1
                                 /\ step' = Consulted("adjusted", r)
                            ELSE /\ readings_since_adjustment' = readings_since_adjustment + 1
                                 /\ step' = Consulted("adjust_failed", r)
                                 /\ UNCHANGED <<frequency, core_voltage,
                                                last_adjustment_reading>>
               ELSE /\ sent' = <<>>
                    /\ readings_since_adjustment' = readings_since_adjustment + 1
                    /\ step' = Consulted("consulted", r)
                    /\ UNCHANGED <<frequency, core_voltage, last_sent,
                                   last_adjustment_reading>>
    /\ UNCHANGED <<argVars, freq_range, freq_step, total_tests, is_interrupted,
                   critical_temp_reached, bestVars, run_number, start_time, pc, exit_code>>

(* One iteration of a run without a table whose reading is critical: the   *)
(* emergency reduction, the early end of the run and main()'s break.       *)
PollCriticalStop ==
    /\ Polling
    /\ ~consults
    /\ ~values_file
    /\ \E info \in RunSamples, reboot_ok \in BOOLEAN :
         /\ critical_hit(info)
         /\ TakeReading(info, reboot_ok)
         /\ LET new_frequency == Max2(min_frequency, frequency - emergency_decrement)
                new_core_voltage == Max2(min_core_voltage, core_voltage - emergency_decrement)
                best == update_best(run_sum_values + info.hashRate, run_count_values + 1,
                                    frequency, core_voltage)
            IN \E reply0 \in RunReplies(new_frequency, new_core_voltage) :
               \E reply1 \in RunReplies(IF monitor_mode THEN initial_frequency
                                        ELSE best.best_frequency,
                                        IF monitor_mode THEN initial_core_voltage
                                        ELSE best.best_voltage) :
               \E reply2 \in RunReplies(initial_frequency, initial_core_voltage) :
                 LET emergency == set_system_settings(new_frequency, new_core_voltage, reply0)
                     restore == restore_settings(~monitor_mode, best.best_frequency,
                                                 best.best_voltage, reply1, reply2)
                 IN /\ best_hashrate' = best.best_hashrate
                    /\ best_frequency' = best.best_frequency
                    /\ best_voltage' = best.best_voltage
                    /\ sent' = <<emergency>> \o restore
                    /\ last_sent' = Last(restore).payload
    /\ critical_temp_reached' = TRUE
    /\ ReturnToMain(is_interrupted, TRUE)
    /\ step' = [Step("critical_stop") EXCEPT !.summary = ~monitor_mode]
    /\ UNCHANGED <<argVars, freq_range, freq_step, total_tests, is_interrupted, fallbackVars,
                   start_time, readings_since_adjustment, last_adjustment_reading, now,
                   exit_code>>

(* The end of the polling loop: the budget is used up or the run was       *)
(* interrupted.  run_test finalizes the run and returns to main().         *)
RunEnd ==
    /\ pc = "polling"
    /\ ~loop_condition
    /\ LET best == update_best(run_sum_values, run_count_values, frequency, core_voltage)
       IN /\ best_hashrate' = best.best_hashrate
          /\ best_frequency' = best.best_frequency
          /\ best_voltage' = best.best_voltage
    /\ ReturnToMain(is_interrupted, critical_temp_reached)
    /\ sent' = <<>>
    /\ step' = [Step("run_end") EXCEPT !.summary = ~monitor_mode /\ run_count_values > 0]
    /\ UNCHANGED <<argVars, freq_range, freq_step, total_tests, is_interrupted,
                   critical_temp_reached, system_info, fallbackVars, runVars, now,
                   exit_code, last_sent, runs>>

(* main() after the loop: the final restore and the normal exit. *)
MainRestore ==
    /\ pc = "restore"
    /\ IF ~monitor_mode /\ ~critical_temp_reached
       THEN \E reply1 \in RunReplies(IF best_frequency # None THEN best_frequency
                                     ELSE initial_frequency,
                                     IF best_voltage # None THEN best_voltage
                                     ELSE initial_core_voltage) :
            \E reply2 \in RunReplies(initial_frequency, initial_core_voltage) :
              LET restore == restore_settings(TRUE, best_frequency, best_voltage,
                                              reply1, reply2)
              IN /\ sent' = restore
                 /\ last_sent' = Last(restore).payload
       ELSE /\ sent' = <<>>
            /\ UNCHANGED last_sent
    /\ pc' = "done"
    /\ exit_code' = 0
    /\ step' = Step("restore")
    /\ UNCHANGED <<argVars, freq_range, freq_step, total_tests, is_interrupted,
                   critical_temp_reached, system_info, bestVars, fallbackVars, frequency,
                   core_voltage, run_number, runVars, now, runs>>

(* signal_handler: SIGINT may arrive between any two steps. *)
SignalHandler ==
    /\ pc \in {"main", "run_test", "polling", "restore"}
    /\ ~is_interrupted
    /\ is_interrupted' = TRUE
    /\ sent' = <<>>
    /\ step' = Step("signal")
    /\ UNCHANGED <<argVars, freq_range, freq_step, total_tests, critical_temp_reached,
                   system_info, bestVars, fallbackVars, frequency, core_voltage, run_number,
                   runVars, pc, now, exit_code, last_sent, runs>>

Next ==
    \/ MainInitialApply
    \/ RunStart
    \/ PollFetchFailed
    \/ PollReading
    \/ PollConsult
    \/ PollCriticalStop
    \/ RunEnd
    \/ MainRestore
    \/ SignalHandler

Spec == Init /\ [][Next]_vars

(* A sweep session under the scheduling the code has: main() and run_test  *)
(* are one sequential thread, so the program takes its next step whenever  *)
(* it has one (every network call returns and the clock advances with      *)
(* every poll); the signal may or may not arrive.  The sweeps followed are *)
(* those whose step is at least the range: one, two or three runs.         *)
InitSweep == Init /\ ~monitor_mode /\ freq_step >= freq_range
ProgramStep ==
    \/ MainInitialApply
    \/ RunStart
    \/ PollFetchFailed
    \/ PollReading
    \/ PollCriticalStop
    \/ RunEnd
    \/ MainRestore
SweepNext == ProgramStep \/ SignalHandler
SpecSweepFair == InitSweep /\ [][SweepNext]_vars /\ WF_vars(ProgramStep)

-----------------------------------------------------------------------------
(* The whole process from its command line: parse_arguments, then main().  *)
(* Before parse_arguments the argument variables hold the command line     *)
(* (bitaxe_ip the address as typed, csv_rows the rows of the table file).  *)

(* parser.error(): one of the argument checks fails (exit status 2). *)
usage_error ==
    \/ initial_core_voltage < min_core_voltage
    \/ initial_frequency < min_frequency
    \/ freq_range < 0
    \/ freq_step <= 0
    \/ (reboot_threshold # None /\ reboot_threshold <= 0)
    \/ (values_file /\ ~monitor_mode)

(* parse_arguments: the exit status it ends the process with (None when it *)
(* returns), the table it loaded and the device URL.  An exception of      *)
(* read_values_csv or validate_ip is not caught: the interpreter exits     *)
(* with status 1.                                                          *)
parse_arguments ==
    LET loaded == IF values_file THEN read_values_csv(csv_rows)
                  ELSE [ok |-> TRUE, value_pairs |-> value_pairs]
        address == validate_ip(bitaxe_ip)
    IN IF usage_error
       THEN [exit |-> 2, value_pairs |-> value_pairs, bitaxe_ip |-> bitaxe_ip]
       ELSE IF ~loaded.ok
       THEN [exit |-> 1, value_pairs |-> loaded.value_pairs, bitaxe_ip |-> bitaxe_ip]
       ELSE IF ~address.ok
       THEN [exit |-> 1, value_pairs |-> loaded.value_pairs, bitaxe_ip |-> bitaxe_ip]
       ELSE [exit |-> None, value_pairs |-> loaded.value_pairs, bitaxe_ip |-> address.url]

HostName == <<Field(6, FALSE), Field(5, FALSE)>>
StartupFiles == {<<HeaderRow, DataRow(1050, 450), DataRow(1100, 500)>>,
                 <<DataRow(1050, 450)>>}

InitStartup ==
    /\ InitGlobals
    /\ initial_core_voltage \in {min_core_voltage - 5, min_core_voltage + 5}
    /\ initial_frequency \in {min_frequency - 5, min_frequency}
    /\ freq_range \in {-1, 0}
    /\ freq_step \in {0, 1}
    /\ reboot_threshold \in {None, 0}
    /\ monitor_mode \in BOOLEAN
    /\ values_file \in BOOLEAN
    /\ csv_rows \in (IF values_file THEN StartupFiles ELSE {<<>>})
    /\ value_pairs = <<>>
    /\ bitaxe_ip \in {DeviceAddress, HostName}
    /\ pc = "parse"
    /\ step = Step("init")

ParseArguments ==
    /\ pc = "parse"
    /\ value_pairs' = parse_arguments.value_pairs
    /\ bitaxe_ip' = parse_arguments.bitaxe_ip
    /\ exit_code' = parse_arguments.exit
    /\ pc' = IF parse_arguments.exit = None THEN "main" ELSE "exited"
    /\ sent' = <<>>
    /\ step' = Step("parse")
    /\ UNCHANGED <<initial_frequency, initial_core_voltage, reboot_threshold, monitor_mode,
                   values_file, csv_rows, freq_range, freq_step, total_tests, is_interrupted,
                   critical_temp_reached, system_info, bestVars, fallbackVars, frequency,
                   core_voltage, run_number, runVars, now, last_sent, runs>>

StartupNext == ParseArguments \/ Next

SpecStartup == InitStartup /\ [][StartupNext]_vars

-----------------------------------------------------------------------------
(* set_system_settings on its own: any request, any answer of the device.  *)

ApplyFrequencies == {min_frequency - 10, min_frequency, min_frequency + 25}
ApplyVoltages == {min_core_voltage - 10, min_core_voltage, min_core_voltage + 200}

InitApply ==
    /\ InitGlobals
    /\ initial_frequency = None
    /\ initial_core_voltage = None
    /\ monitor_mode = FALSE
    /\ values_file = FALSE
    /\ freq_range = 0
    /\ freq_step = 1
    /\ reboot_threshold = None
    /\ value_pairs = <<>>
    /\ csv_rows = <<>>
    /\ bitaxe_ip = validate_ip(DeviceAddress).url
    /\ pc = "apply"
    /\ step = [kind |-> "init", reply |-> Reply(FALSE, FALSE, None, None)]

ApplySettings ==
    /\ pc = "apply"
    /\ \E freq \in ApplyFrequencies, volt \in ApplyVoltages :
         \E reply \in DeviceReplies(freq, volt) :
           LET a == set_system_settings(freq, volt, reply)
           IN /\ frequency' = freq
              /\ core_voltage' = volt
              /\ sent' = <<a>>
              /\ last_sent' = a.payload
              /\ step' = [kind |-> "apply", reply |-> reply]
    /\ pc' = "applied"
    /\ UNCHANGED <<argVars, freq_range, freq_step, total_tests, is_interrupted,
                   critical_temp_reached, system_info, bestVars, fallbackVars, run_number,
                   runVars, now, exit_code, runs>>

SpecApply == InitApply /\ [][ApplySettings]_vars

-----------------------------------------------------------------------------
(* read_values_csv on its own: parse_arguments loads the table of any file. *)

InitCsv ==
    /\ InitGlobals
    /\ initial_frequency = None
    /\ initial_core_voltage = None
    /\ monitor_mode = TRUE
    /\ values_file = TRUE
    /\ freq_range = 0
    /\ freq_step = 1
    /\ reboot_threshold = None
    /\ value_pairs = <<>>
    /\ csv_rows \in CsvFiles
    /\ bitaxe_ip = validate_ip(DeviceAddress).url
    /\ pc = "load"
    /\ step = Step("init")

LoadValues ==
    /\ pc = "load"
    /\ value_pairs' = read_values_csv(csv_rows).value_pairs
    /\ pc' = IF read_values_csv(csv_rows).ok THEN "loaded" ELSE "load_error"
    /\ step' = Step("load")
    /\ UNCHANGED <<initial_frequency, initial_core_voltage, reboot_threshold, monitor_mode,
                   values_file, csv_rows, bitaxe_ip, freq_range, freq_step, total_tests, is_interrupted,
                   critical_temp_reached, system_info, bestVars, fallbackVars, frequency,
                   core_voltage, run_number, runVars, now, exit_code, sent, last_sent, runs>>

SpecCsv == InitCsv /\ [][LoadValues]_vars

-----------------------------------------------------------------------------
(* The selector in its calling context: run_test consults it with the      *)
(* current point and applies what it returns.  Any sorted table, any       *)
(* starting point (the command line's), any sample, and consultations      *)
(* just inside a cooldown or a cooldown apart.                             *)

SelectorPoints == {<<1000, 400>>, <<1075, 475>>, <<1100, 500>>, <<1100, 510>>,
                   <<1200, 600>>}
ConsultWaits == {advance_delay - 1, advance_delay}

InitSelector ==
    /\ InitGlobals
    /\ \E p \in SelectorPoints : initial_core_voltage = p[1] /\ initial_frequency = p[2]
    /\ monitor_mode = TRUE
    /\ values_file = TRUE
    /\ freq_range = 0
    /\ freq_step = 1
    /\ reboot_threshold = None
    /\ value_pairs \in Tables
    /\ csv_rows = <<>>
    /\ bitaxe_ip = validate_ip(DeviceAddress).url
    /\ pc = "select"
    /\ step = Step("init")

SelectorConsult ==
    /\ pc \in {"select", "selected"}
    /\ polls < MaxConsults
    /\ LET freq == IF pc = "select" THEN initial_frequency ELSE frequency
           volt == IF pc = "select" THEN initial_core_voltage ELSE core_voltage
       IN \E info \in Samples({0}), d \in ConsultWaits :
            LET r == adjust_settings_based_on_values(freq, volt, info, now + d)
            IN /\ system_info' = info
               /\ now' = now + d
               /\ last_fallback_time' = r.last_fallback_time
               /\ last_fallback_voltage' = r.last_fallback_voltage
               /\ \E reply \in RunReplies(r.frequency, r.core_voltage) :
                    LET a == set_system_settings(r.frequency, r.core_voltage, reply)
                        changed == r.frequency # freq \/ r.core_voltage # volt
                    IN /\ frequency' = IF changed /\ a.ok THEN r.frequency ELSE freq
                       /\ core_voltage' = IF changed /\ a.ok THEN r.core_voltage ELSE volt
                       /\ sent' = IF changed THEN <<a>> ELSE <<>>
                       /\ last_sent' = IF changed THEN a.payload ELSE last_sent
               /\ step' = [kind |-> "consulted", frequency |-> freq, core_voltage |-> volt,
                           time |-> now + d, sel |-> r]
    /\ pc' = "selected"
    /\ polls' = polls + 1
    /\ UNCHANGED <<argVars, freq_range, freq_step, total_tests, is_interrupted,
                   critical_temp_reached, bestVars, run_number, start_time, aggregateVars,
                   rebootVars, readings_since_adjustment, last_adjustment_reading,
                   exit_code, runs>>

SpecSelector == InitSelector /\ [][SelectorConsult]_vars

-----------------------------------------------------------------------------
(* Properties of the selector (SpecSelector) *)

Consulted_ == step.kind = "consulted"
ReturnedPoint == <<step.sel.core_voltage, step.sel.frequency>>
InputPoint == <<step.core_voltage, step.frequency>>
LastIndex == Len(value_pairs) - 1

(* C1: on a critical hit (chip temp, VR temp or power at or above its      *)
(* critical threshold) the selector returns exactly table[i-1] when the    *)
(* current index i is above 0, and when i is 0 it reports that it is at    *)
(* the lowest settings and returns the input point unchanged.              *)
C1_CriticalFallback ==
    (Consulted_ /\ critical_hit(system_info)) =>
        IF step.sel.current_index > 0
        THEN /\ step.sel.branch = "drop"
             /\ ReturnedPoint = At(value_pairs, step.sel.current_index - 1)
        ELSE /\ step.sel.branch = "lowest"
             /\ ReturnedPoint = InputPoint

C1_Witness ==
    /\ Consulted_
    /\ critical_hit(system_info)
    /\ step.sel.current_index = 2
    /\ step.sel.branch = "drop"
    /\ ReturnedPoint # InputPoint

(* C2: while fewer than advance_delay seconds have passed since a fallback *)
(* was recorded at voltage V, a consultation with the safe margin never    *)
(* advances to a table entry of voltage >= V, and an advance to a next     *)
(* entry of voltage < V is not blocked.                                    *)
C2_Cooldown ==
    (/\ Consulted_
     /\ safe_margin(system_info)
     /\ last_fallback_time # None
     /\ step.time - last_fallback_time < advance_delay) =>
        /\ step.sel.branch = "advance" => step.sel.core_voltage < last_fallback_voltage
        /\ (/\ step.sel.current_index < LastIndex
            /\ At(value_pairs, step.sel.current_index + 1)[1] < last_fallback_voltage)
              => (step.sel.branch = "advance"
                  /\ ReturnedPoint = At(value_pairs, step.sel.current_index + 1))

C2_Witness ==
    /\ Consulted_
    /\ safe_margin(system_info)
    /\ last_fallback_time # None
    /\ step.time - last_fallback_time = advance_delay - 1
    /\ step.sel.current_index < LastIndex
    /\ At(value_pairs, step.sel.current_index + 1)[1] >= last_fallback_voltage
    /\ step.sel.branch = "hold"

(* C3: without a critical hit the selector returns table[index+1] exactly  *)
(* when all three metrics are at least critical_advance_margin below their *)
(* critical thresholds, no cooldown blocks the step and index < last; in   *)
(* every other non-critical case it returns the input point unchanged.     *)
C3_AdvanceGate ==
    (Consulted_ /\ ~critical_hit(system_info)) =>
        LET i == step.sel.current_index
            margin == /\ system_info.temp + critical_advance_margin <= max_temp_critical
                      /\ system_info.vrTemp + critical_advance_margin <= max_vrtemp_critical
                      /\ system_info.power + critical_advance_margin <= max_power_critical
            cooling == /\ last_fallback_time # None
                       /\ step.time - last_fallback_time < advance_delay
            advances == /\ margin
                        /\ i < LastIndex
                        /\ ~(cooling /\ At(value_pairs, i + 1)[1] >= last_fallback_voltage)
        IN IF advances
           THEN step.sel.branch = "advance" /\ ReturnedPoint = At(value_pairs, i + 1)
           ELSE step.sel.branch = "hold" /\ ReturnedPoint = InputPoint

C3_Witness ==
    /\ Consulted_
    /\ ~critical_hit(system_info)
    /\ step.sel.branch = "advance"
    /\ step.sel.current_index = 1
    /\ last_fallback_time # None

InTable == \E i \in 0..LastIndex : At(value_pairs, i) = InputPoint
VoltageAt(i) == At(value_pairs, i)[1]

(* C16 as stated: the index is that of the current pair when it is in the  *)
(* table; otherwise that of the highest-voltage entry whose voltage is <=  *)
(* the current voltage, and the last index when the current voltage is     *)
(* above every table voltage.                                              *)
C16_Original ==
    Consulted_ =>
        LET idx == step.sel.current_index
            v == step.core_voltage
        IN IF InTable THEN At(value_pairs, idx) = InputPoint
           ELSE IF \A i \in 0..LastIndex : VoltageAt(i) < v THEN idx = LastIndex
           ELSE IF \E i \in 0..LastIndex : VoltageAt(i) <= v
           THEN /\ VoltageAt(idx) <= v
                /\ \A i \in 0..LastIndex : VoltageAt(i) <= v => VoltageAt(i) <= VoltageAt(idx)
           ELSE TRUE

(* C16 amended: the index is that of the first occurrence of the current   *)
(* pair when it is in the table; otherwise that of the last entry whose    *)
(* voltage is strictly below the current voltage, 0 when no entry is       *)
(* below it, and the last index when every entry is below it.              *)
C16_IndexDerivation ==
    Consulted_ =>
        LET idx == step.sel.current_index
            v == step.core_voltage
        IN /\ idx \in 0..LastIndex
           /\ IF InTable
              THEN /\ At(value_pairs, idx) = InputPoint
                   /\ \A i \in 0..(idx - 1) : At(value_pairs, i) # InputPoint
              ELSE IF \A i \in 0..LastIndex : VoltageAt(i) < v THEN idx = LastIndex
              ELSE IF \E i \in 0..LastIndex : VoltageAt(i) < v
              THEN /\ VoltageAt(idx) < v
                   /\ VoltageAt(idx + 1) >= v
              ELSE idx = 0

C16_Witness ==
    /\ Consulted_
    /\ ~InTable
    /\ step.sel.current_index = 0
    /\ LastIndex = 2
    /\ VoltageAt(0) < step.core_voltage
    /\ VoltageAt(1) = step.core_voltage

(* C23: whenever the selector is consulted with a critical hit and the     *)
(* table has an entry whose voltage is strictly below the current voltage, *)
(* it returns a point with a strictly lower voltage, whether or not the    *)
(* current point is a table entry.                                         *)
C23_CriticalLowers ==
    (/\ Consulted_
     /\ critical_hit(system_info)
     /\ \E i \in 0..LastIndex : VoltageAt(i) < step.core_voltage)
        => step.sel.core_voltage < step.core_voltage

(* The end of an iteration that falls into the cooldown of a recorded      *)
(* fallback, with a table whose voltages are distinct.                     *)
DistinctVoltages ==
    \A i, j \in 0..LastIndex : i # j => VoltageAt(i) # VoltageAt(j)
InCooldown ==
    /\ pc = "selected"
    /\ last_fallback_time # None
    /\ now - last_fallback_time < advance_delay
    /\ DistinctVoltages

(* C24 as stated: during an active cooldown, in a table with distinct      *)
(* voltages, the tracked core voltage is strictly below the recorded       *)
(* fallback voltage at the end of every iteration.                         *)
C24_Original == InCooldown => core_voltage < last_fallback_voltage

(* C24 amended: during an active cooldown the tracked core voltage is at   *)
(* most the recorded fallback voltage; it is strictly below it once the    *)
(* write of the fallback point has succeeded, and stays strictly below it  *)
(* until that cooldown ends or another fallback is recorded.               *)
C24_CooldownVoltage ==
    /\ [](InCooldown => core_voltage <= last_fallback_voltage)
    /\ [][(InCooldown' /\ step'.sel.branch = "drop" /\ sent'[1].ok)
            => core_voltage' < last_fallback_voltage']_vars
    /\ [][(/\ InCooldown
           /\ InCooldown'
           /\ last_fallback_time' = last_fallback_time
           /\ core_voltage < last_fallback_voltage)
            => core_voltage' < last_fallback_voltage']_vars

C24_Witness ==
    /\ InCooldown
    /\ polls = 2
    /\ step.sel.branch = "advance"
    /\ sent[1].ok
    /\ core_voltage > step.core_voltage
    /\ core_voltage < last_fallback_voltage

(* C25: an advance never skips a table entry: when the selector advances  *)
(* to an entry of voltage W, no table entry has a voltage strictly between *)
(* the current voltage and W, whether or not the current point is a table  *)
(* entry.                                                                  *)
C25_NoSkip ==
    (Consulted_ /\ step.sel.branch = "advance") =>
        ~ \E i \in 0..LastIndex :
              step.core_voltage < VoltageAt(i) /\ VoltageAt(i) < step.sel.core_voltage

(* C26: the selector's direction is monotone in voltage: on a critical hit *)
(* the returned point never has a higher voltage than the current point,   *)
(* and an advance never returns a lower voltage than the current one, for  *)
(* every current point and every sorted table.                             *)
C26_Monotone ==
    Consulted_ =>
        /\ critical_hit(system_info) => step.sel.core_voltage <= step.core_voltage
        /\ step.sel.branch = "advance" => step.sel.core_voltage >= step.core_voltage

C26_Witness ==
    /\ Consulted_
    /\ ~InTable
    /\ step.sel.branch = "advance"
    /\ step.sel.core_voltage > step.core_voltage
    /\ \E i \in 0..LastIndex : VoltageAt(i) < step.core_voltage

-----------------------------------------------------------------------------
(* Properties of main() and run_test() (Spec) *)

(* C4: when a reading of a run without a table is critical, the next       *)
(* settings write is (max(400, frequency-10), max(1000, voltage-10)), the  *)
(* run takes no further reading and no later sweep run is started.         *)
C4_CriticalStop ==
    /\ [][(/\ pc = "polling"
           /\ ~values_file
           /\ reading_count' = reading_count + 1
           /\ critical_hit(system_info'))
          => (/\ sent' # <<>>
              /\ sent'[1].payload =
                    [frequency |-> Max2(min_frequency, frequency - emergency_decrement),
                     coreVoltage |-> Max2(min_core_voltage,
                                          core_voltage - emergency_decrement)]
              /\ critical_temp_reached'
              /\ pc' = "restore")]_vars
    /\ [](critical_temp_reached => pc \in {"restore", "done"})

C4_Witness ==
    /\ step.kind = "critical_stop"
    /\ ~monitor_mode
    /\ critical_hit(system_info)
    /\ frequency + freq_step <= initial_frequency + freq_range
    /\ pc = "restore"

(* C5: every settings write sent to the device, from any call site,        *)
(* carries a frequency >= 400 MHz and a core voltage >= 1000 mV.           *)
C5_WritesClamped ==
    \A i \in 1..Len(sent) :
        /\ sent[i].payload.frequency >= min_frequency
        /\ sent[i].payload.coreVoltage >= min_core_voltage

C5_Witness ==
    /\ step.kind = "run_start"
    /\ frequency < min_frequency
    /\ sent # <<>>
    /\ sent[1].payload.frequency = min_frequency

(* C7: with no interruption and no critical trip the sweep calls run_test  *)
(* at f-r, f-r+s, f-r+2s, ... (all <= f+r) in ascending order, each at the *)
(* initial voltage, and the number of runs is total_tests = (2r)//s + 1.   *)
C7_SweepSequence ==
    (~monitor_mode /\ pc \notin {"main", "exited"}) =>
        /\ \A k \in 1..Len(runs) :
              /\ runs[k].frequency = initial_frequency - freq_range + (k - 1) * freq_step
              /\ runs[k].frequency <= initial_frequency + freq_range
              /\ runs[k].core_voltage = initial_core_voltage
        /\ total_tests = (2 * freq_range) \div freq_step + 1
        /\ Len(runs) <= total_tests
        /\ (pc \in {"restore", "done"} /\ ~is_interrupted /\ ~critical_temp_reached)
              => Len(runs) = total_tests

C7_Witness ==
    /\ ~monitor_mode
    /\ pc = "done"
    /\ ~is_interrupted
    /\ ~critical_temp_reached
    /\ freq_step = 1
    /\ Len(runs) = 3

(* The runs that took a reading, and the first of those with the highest   *)
(* average hashrate.                                                       *)
MeasuredRuns == {k \in 1..Len(runs) : runs[k].average # NoAverage}
TopRuns == {k \in MeasuredRuns :
               \A j \in MeasuredRuns : ~greater(runs[j].average, runs[k].average)}
FirstTopRun == SetMin(TopRuns)
SweepEnded == ~monitor_mode /\ pc = "done" /\ ~critical_temp_reached
PointPayload(freq, volt) == [frequency |-> Max2(min_frequency, freq),
                             coreVoltage |-> Max2(min_core_voltage, volt)]

(* C8 as stated: at the end of a sweep session with no critical trip the   *)
(* last settings applied to the device are the (frequency, voltage) of a   *)
(* run that had the highest average hashrate (as the device was sent them, *)
(* raised to the safety minima).                                           *)
C8_Original ==
    (SweepEnded /\ MeasuredRuns # {}) =>
        \E k \in TopRuns :
            last_sent = PointPayload(runs[k].frequency, runs[k].core_voltage)

(* C8 amended: at the end of a sweep session with no critical trip, if     *)
(* some run had an average hashrate above 0 the final restore first writes *)
(* the point of the first run that attained the highest average, each      *)
(* value raised to its safety minimum, and that is the last write unless   *)
(* it fails to apply or verify, in which case the initial settings are     *)
(* written last; if no run had an average above 0 the initial settings are *)
(* written.                                                                *)
C8_FinalSettings ==
    SweepEnded =>
        IF MeasuredRuns # {} /\ greater(runs[FirstTopRun].average, ZeroAverage)
        THEN /\ sent[1].payload = PointPayload(runs[FirstTopRun].frequency,
                                               runs[FirstTopRun].core_voltage)
             /\ IF sent[1].ok
                THEN Len(sent) = 1 /\ last_sent = sent[1].payload
                ELSE /\ Len(sent) = 2
                     /\ sent[2].payload = PointPayload(initial_frequency,
                                                       initial_core_voltage)
                     /\ last_sent = sent[2].payload
        ELSE /\ Len(sent) = 1
             /\ sent[1].payload = PointPayload(initial_frequency, initial_core_voltage)
             /\ last_sent = sent[1].payload

C8_Witness ==
    /\ SweepEnded
    /\ Len(runs) = 3
    /\ MeasuredRuns = {1, 2, 3}
    /\ TopRuns = {2, 3}
    /\ sent[1].ok
    /\ last_sent = [frequency |-> runs[2].frequency, coreVoltage |-> runs[2].core_voltage]

(* C9 as stated: a monitor-mode run, with or without a table, leaves the   *)
(* polling loop only when the interruption flag is set.                    *)
C9_Original ==
    [][(monitor_mode /\ pc = "polling" /\ pc' # "polling") => is_interrupted]_vars

(* C9 amended: a monitor-mode run never ends on a time budget; a           *)
(* table-driven monitor run leaves the polling loop only when the          *)
(* interruption flag is set, and a monitor run without a table leaves it   *)
(* only on interruption or on a critical reading (the emergency stop).     *)
C9_MonitorStops ==
    [][(monitor_mode /\ pc = "polling" /\ pc' # "polling")
       => \/ is_interrupted
          \/ (/\ ~values_file
              /\ critical_hit(system_info')
              /\ reading_count' = reading_count + 1
              /\ critical_temp_reached')]_vars

C9_Witness ==
    /\ monitor_mode
    /\ values_file
    /\ step.kind = "run_end"
    /\ is_interrupted
    /\ now - start_time >= run_duration
    /\ reading_count > 0

-----------------------------------------------------------------------------
(* Properties of set_system_settings (SpecApply) *)

(* C6: set_system_settings succeeds exactly when the PATCH succeeds, the   *)
(* read-back GET succeeds and both the read-back frequency and coreVoltage *)
(* are within 1 of the requested values (those of the payload sent).       *)
C6_ApplyVerified ==
    step.kind = "apply" =>
        (sent[1].ok <=>
            /\ step.reply.patch_ok
            /\ step.reply.get_ok
            /\ step.reply.frequency - sent[1].payload.frequency \in -1..1
            /\ step.reply.coreVoltage - sent[1].payload.coreVoltage \in -1..1)

C6_Witness ==
    /\ step.kind = "apply"
    /\ step.reply.patch_ok
    /\ step.reply.get_ok
    /\ step.reply.frequency = sent[1].payload.frequency - 10
    /\ step.reply.coreVoltage = sent[1].payload.coreVoltage
    /\ ~sent[1].ok

-----------------------------------------------------------------------------
(* Properties of read_values_csv (SpecCsv) *)

DataRowsOf(rows) == parse_rows(rows)
Occurrences(seq, x) == Cardinality({i \in 1..Len(seq) : seq[i] = x})
SamePairs(a, b) == \A x \in PairPool : Occurrences(a, x) = Occurrences(b, x)

(* C10: for a file with data rows R, with or without a header row, the     *)
(* loaded table is exactly the rows of R sorted ascending by voltage, no   *)
(* row lost; loading fails when R is empty.                                *)
C10_LoadsEveryRow ==
    pc \in {"loaded", "load_error"} =>
        IF DataRowsOf(csv_rows) = <<>>
        THEN pc = "load_error"
        ELSE /\ pc = "loaded"
             /\ IsSorted(value_pairs)
             /\ SamePairs(value_pairs, DataRowsOf(csv_rows))
-----------------------------------------------------------------------------
(* Properties of the polling loop (Spec) *)

(* C11: an iteration whose fetch fails counts no reading: reading_count,   *)
(* the run and global aggregates, readings_since_adjustment, the           *)
(* identical-hashrate counter and the tracked (frequency, voltage) are     *)
(* unchanged, no settings write is issued and the run goes on.             *)
C11_FetchFailureFrame ==
    [][step'.kind = "fetch_failed"
       => (/\ UNCHANGED <<reading_count, run_sum_values, run_count_values, run_min_values,
                          run_max_values, global_min_values, global_max_values,
                          hashrate_readings, system_info>>
           /\ UNCHANGED <<readings_since_adjustment, identical_hashrate_count,
                          last_hashrate, frequency, core_voltage>>
           /\ sent' = <<>>
           /\ last_sent' = last_sent
           /\ pc = "polling"
           /\ pc' = "polling"
           /\ UNCHANGED <<critical_temp_reached, exit_code, runs, bestVars>>)]_vars

C11_Witness ==
    /\ step.kind = "fetch_failed"
    /\ reading_count = 1
    /\ polls = 3
    /\ readings_since_adjustment = 1
    /\ identical_hashrate_count = 1
    /\ loop_condition

(* The steps that are an iteration of the polling loop (each begins with   *)
(* a status fetch).                                                        *)
FetchKinds == {"fetch_failed", "reading", "reading_reboot", "consulted", "adjusted",
               "adjust_failed", "critical_stop"}
NoFetch == step'.kind \notin FetchKinds /\ system_info' = system_info /\ reading_count' <= reading_count

RECURSIVE SumSeq(_)
SumSeq(seq) == IF seq = <<>> THEN 0 ELSE seq[1] + SumSeq(Tail(seq))

(* C13: after every successful reading the run minimum is at most, and the *)
(* run maximum at least, every value observed in the run; the count is the *)
(* number of observed values and sum/count is their arithmetic mean; and   *)
(* within a run the minimum never increases and the maximum never          *)
(* decreases.  (Followed for the hashRate key.)                            *)
C13_RunAggregate ==
    /\ [](/\ \A i \in 1..Len(hashrate_readings) :
                /\ run_min_values <= hashrate_readings[i]
                /\ hashrate_readings[i] <= run_max_values
          /\ run_count_values = Len(hashrate_readings)
          /\ run_sum_values = SumSeq(hashrate_readings)
          /\ (run_count_values > 0 =>
                average(run_sum_values, run_count_values)
                  = average(SumSeq(hashrate_readings), Len(hashrate_readings)))
          /\ \A i \in 1..Len(hashrate_readings) :
                /\ global_min_values <= hashrate_readings[i]
                /\ hashrate_readings[i] <= global_max_values)
    /\ [][step'.kind # "run_start"
          => (/\ run_min_values' <= run_min_values
              /\ run_max_values' >= run_max_values)]_vars
    /\ [][reading_count' = reading_count + 1
          => (/\ hashrate_readings' = Append(hashrate_readings, system_info'.hashRate)
              /\ run_min_values' <= system_info'.hashRate
              /\ system_info'.hashRate <= run_max_values')]_vars

C13_Witness ==
    /\ step.kind = "reading"
    /\ hashrate_readings = <<1, 0, 1>>
    /\ run_min_values = 0
    /\ run_max_values = 1
    /\ run_sum_values = 2
    /\ run_count_values = 3
-----------------------------------------------------------------------------
(* Properties of the process as a whole (SpecStartup) *)

InitialApplyFailed == step.kind = "initial_apply" /\ ~sent[1].ok
AddressArgument == IF pc = "parse" \/ (pc = "exited" /\ step.kind = "parse")
                   THEN bitaxe_ip ELSE bitaxe_ip[2]
TableUnreadable == values_file /\ ~read_values_csv(csv_rows).ok
AddressInvalid ==
    \/ Len(AddressArgument) # 4
    \/ \E i \in 1..Len(AddressArgument) :
          ~AddressArgument[i].digits \/ AddressArgument[i].length \notin 1..3

(* C14 as stated: the process exits with code 1, before any run, when the  *)
(* initial settings cannot be applied, and with code 0 in every other case.*)
C14_Original ==
    pc \in {"exited", "done"} =>
        IF InitialApplyFailed
        THEN exit_code = 1 /\ runs = <<>>
        ELSE exit_code = 0

(* C14 amended: the process exits with code 1, before any run, when the    *)
(* initial settings cannot be applied; with code 2 when an argument check  *)
(* fails; with code 1 when the table cannot be loaded or the address is    *)
(* not a dotted quad; and with code 0 when main() returns.                 *)
C14_ExitCodes ==
    /\ (pc \in {"exited", "done"}) <=> (exit_code # None)
    /\ InitialApplyFailed => (pc = "exited" /\ exit_code = 1 /\ runs = <<>>)
    /\ pc = "done" => exit_code = 0
    /\ pc = "exited" =>
          \/ InitialApplyFailed /\ exit_code = 1
          \/ step.kind = "parse" /\ usage_error /\ exit_code = 2
          \/ (/\ step.kind = "parse"
              /\ ~usage_error
              /\ TableUnreadable \/ AddressInvalid
              /\ exit_code = 1)
    /\ (pc # "parse" /\ (usage_error \/ TableUnreadable \/ AddressInvalid))
          => (pc = "exited" /\ step.kind = "parse" /\ runs = <<>> /\ last_sent = NoPayload)

C14_Witness ==
    /\ pc = "exited"
    /\ InitialApplyFailed
    /\ exit_code = 1
    /\ monitor_mode
    /\ values_file
    /\ value_pairs # <<>>
-----------------------------------------------------------------------------
(* Properties of the table-driven run (Spec) *)

ConsultKinds == {"consulted", "adjusted", "adjust_failed"}

(* C15: the selector is consulted in an iteration only when at least       *)
(* readings_to_advance successful readings have been taken since the last  *)
(* applied adjustment (since run start when there was none); an applied    *)
(* adjustment resets the since-adjustment counter, so two applied          *)
(* adjustments are at least readings_to_advance readings apart.            *)
C15_Gating ==
    /\ [][step'.kind \in ConsultKinds
          => (/\ monitor_mode
              /\ values_file
              /\ readings_since_adjustment >= readings_to_advance
              /\ reading_count' - last_adjustment_reading >= readings_to_advance)]_vars
    /\ [][step'.kind = "adjusted"
          => (/\ readings_since_adjustment' = 1
              /\ last_adjustment_reading' = reading_count'
              /\ last_adjustment_reading' - last_adjustment_reading
                    >= readings_to_advance)]_vars
    /\ [](pc = "polling"
            => readings_since_adjustment
                 = reading_count - last_adjustment_reading
                   + (IF last_adjustment_reading > 0 THEN 1 ELSE 0))

C15_Witness ==
    /\ step.kind = "adjusted"
    /\ value_pairs = <<<<990, 390>>, <<1050, 450>>, <<1100, 500>>>>
    /\ initial_core_voltage = min_core_voltage + 5
    /\ core_voltage = 1100
    /\ frequency = 500
    /\ reading_count = 2 * readings_to_advance + 1
(* C17: the fallback state is written exactly when, on a critical reading, *)
(* the selector drops to a lower operating point, as (time of the drop,    *)
(* voltage in effect before the drop); it is not written when the selector *)
(* is at the lowest entry, and once set it is never unset.                 *)
C17_FallbackState ==
    /\ [][(fallbackVars' # fallbackVars)
          <=> (/\ step'.kind \in ConsultKinds
               /\ critical_hit(system_info')
               /\ step'.sel.current_index > 0)]_vars
    /\ [][(fallbackVars' # fallbackVars)
          => (/\ last_fallback_time' = now
              /\ last_fallback_voltage' = core_voltage
              /\ step'.sel.branch = "drop"
              /\ step'.sel.core_voltage < core_voltage
              /\ sent' # <<>>
              /\ sent'[1].payload = PointPayload(step'.sel.frequency,
                                                 step'.sel.core_voltage))]_vars
    /\ [][last_fallback_time # None
          => (last_fallback_time' # None /\ last_fallback_voltage' # None)]_vars
    /\ []((last_fallback_time = None) <=> (last_fallback_voltage = None))

C17_Witness ==
    /\ step.kind = "consulted"
    /\ step.sel.branch = "lowest"
    /\ critical_hit(system_info)
    /\ last_fallback_voltage = 1100
    /\ core_voltage = 990
    /\ last_fallback_time < step.time
(* C18: when the selector proposes a new point and the write of it fails,  *)
(* the tracked (frequency, voltage) stay at the prior values, the          *)
(* since-adjustment counter is not reset and the polling loop continues.   *)
C18_FailedAdjustment ==
    [][step'.kind = "adjust_failed"
       => (/\ sent' # <<>>
           /\ ~sent'[1].ok
           /\ sent'[1].payload = PointPayload(step'.sel.frequency, step'.sel.core_voltage)
           /\ <<step'.sel.core_voltage, step'.sel.frequency>> # <<core_voltage, frequency>>
           /\ frequency' = frequency
           /\ core_voltage' = core_voltage
           /\ readings_since_adjustment' = readings_since_adjustment + 1
           /\ last_adjustment_reading' = last_adjustment_reading
           /\ pc' = "polling"
           /\ UNCHANGED <<critical_temp_reached, exit_code, run_number, runs>>)]_vars

C18_Witness ==
    /\ step.kind = "adjust_failed"
    /\ step.sel.branch = "advance"
    /\ reading_count = readings_to_advance + 2
    /\ readings_since_adjustment = readings_to_advance + 2
    /\ last_adjustment_reading = 0
    /\ frequency = initial_frequency
    /\ loop_condition
-----------------------------------------------------------------------------
(* Properties of the reboot detection (Spec) *)

Max3(S) == CHOOSE x \in S : \A y \in S : y <= x
(* The reading of the last successful reboot before reading n (0: none). *)
PrevReboot(n) ==
    Max3({0} \cup {reboot_attempts[i][1] :
                     i \in {j \in 1..Len(reboot_attempts) :
                              reboot_attempts[j][2] /\ reboot_attempts[j][1] < n}})
(* The number of consecutive identical readings ending with reading n,     *)
(* counted from the last successful reboot before it.                      *)
StreakAt(n) ==
    Cardinality({k \in (PrevReboot(n) + 1)..n :
                   \A m \in k..n : hashrate_readings[m] = hashrate_readings[n]})
IssuedAt(n) == \E i \in 1..Len(reboot_attempts) : reboot_attempts[i][1] = n

(* C19 as stated: with a threshold N a reboot is issued in exactly the     *)
(* iteration in which the number of consecutive identical hashrate         *)
(* readings reaches N.                                                     *)
C19_Original ==
    reboot_threshold # None =>
        \A n \in 1..Len(hashrate_readings) :
            IssuedAt(n) <=> (StreakAt(n) = reboot_threshold)

(* C19 amended: with a threshold N a reboot is attempted in exactly the    *)
(* iterations whose reading makes at least max(N, 2) consecutive identical *)
(* readings since the last successful reboot; a successful reboot resets   *)
(* the counter and the remembered hashrate; a failed reboot leaves the     *)
(* counter running and does not end the loop.                              *)
C19_RebootDetection ==
    /\ [](reboot_threshold # None =>
            \A n \in 1..Len(hashrate_readings) :
                IssuedAt(n) <=> (StreakAt(n) >= Max2(reboot_threshold, 2)))
    /\ [](reboot_threshold = None => reboot_attempts = <<>>)
    /\ [][Len(reboot_attempts') = Len(reboot_attempts) + 1
          => IF Last(reboot_attempts')[2]
             THEN identical_hashrate_count' = 0 /\ last_hashrate' = None
             ELSE /\ identical_hashrate_count' = identical_hashrate_count + 1
                  /\ last_hashrate' = last_hashrate
                  /\ (pc' = "polling" \/ step'.kind = "critical_stop")]_vars

C19_Witness ==
    /\ reboot_threshold = 2
    /\ hashrate_readings = <<1, 1, 1, 1, 0, 0>>
    /\ reboot_attempts = <<<<2, TRUE>>, <<4, TRUE>>, <<6, FALSE>>>>
    /\ pc = "polling"

(* The runs that run_test has finalized and that took a reading, and those *)
(* of them whose average is above 0 and is the highest.                    *)
FinalizedRuns == {k \in MeasuredRuns : pc = "polling" => k < Len(runs)}
BestRuns == {k \in FinalizedRuns :
                /\ greater(runs[k].average, ZeroAverage)
                /\ \A j \in FinalizedRuns : ~greater(runs[j].average, runs[k].average)}

(* C20: in a sweep best_hashrate is the highest average hashrate of the    *)
(* finalized runs that took a reading (0, with no stored point, if none is *)
(* above 0), the stored frequency and voltage are those of the first run   *)
(* with that average, best_hashrate never decreases, and the stored best   *)
(* changes only at the end of a run or at a critical stop, never in        *)
(* monitor mode.                                                           *)
C20_BestResult ==
    /\ [](~monitor_mode =>
            IF BestRuns = {}
            THEN best_hashrate = ZeroAverage /\ best_frequency = None /\ best_voltage = None
            ELSE /\ best_hashrate = runs[SetMin(BestRuns)].average
                 /\ best_frequency = runs[SetMin(BestRuns)].frequency
                 /\ best_voltage = runs[SetMin(BestRuns)].core_voltage)
    /\ [](monitor_mode =>
            best_hashrate = ZeroAverage /\ best_frequency = None /\ best_voltage = None)
    /\ [][~greater(best_hashrate, best_hashrate')]_vars
    /\ [][bestVars' # bestVars
          => ~monitor_mode /\ step'.kind \in {"run_end", "critical_stop"}]_vars

C20_Witness ==
    /\ ~monitor_mode
    /\ step.kind = "critical_stop"
    /\ Len(runs) = 2
    /\ runs[1].average = <<1, 2>>
    /\ runs[2].average = <<1, 1>>
    /\ best_hashrate = <<1, 1>>
    /\ best_frequency = runs[2].frequency

(* A step of run_test that returned at once because the run's settings    *)
(* could not be applied.                                                   *)
RunStartFailed == step'.kind = "run_start" /\ ~sent'[1].ok

(* C21: a sweep run whose settings cannot be applied takes no reading,     *)
(* leaves the aggregates and the stored best unchanged and writes no       *)
(* summary, and the sweep goes on with the next frequency when one is left *)
(* in the range and the session was not interrupted.                       *)
C21_RunStartFailure ==
    /\ [][(RunStartFailed /\ ~monitor_mode) =>
            /\ UNCHANGED <<aggregateVars, bestVars, system_info>>
            /\ ~step'.summary
            /\ runs' = Append(runs, [frequency |-> frequency, core_voltage |-> core_voltage,
                                     started |-> FALSE, average |-> NoAverage])
            /\ IF ~is_interrupted /\ frequency + freq_step <= initial_frequency + freq_range
               THEN /\ pc' = "run_test"
                    /\ frequency' = frequency + freq_step
                    /\ core_voltage' = initial_core_voltage
                    /\ run_number' = run_number + 1
               ELSE pc' = "restore"]_vars
    /\ [](\A k \in 1..Len(runs) : ~runs[k].started => runs[k].average = NoAverage)

C21_Witness ==
    /\ ~monitor_mode
    /\ step.kind = "run_start"
    /\ ~sent[1].ok
    /\ pc = "run_test"
    /\ Len(runs) = 2
    /\ runs[1].average = <<1, 1>>
    /\ ~runs[2].started
    /\ best_frequency = runs[1].frequency
    /\ frequency = runs[2].frequency + freq_step

(* C22: after a critical stop of a sweep the last settings written to the  *)
(* device before the process ends are not those of the run in which the    *)
(* critical condition was hit.                                             *)
C22_NoCriticalRestore ==
    (~monitor_mode /\ critical_temp_reached /\ pc = "done") =>
        last_sent # PointPayload(runs[Len(runs)].frequency, runs[Len(runs)].core_voltage)

(* C27 as stated: every run of a sweep ends, and the sweep reaches its     *)
(* final restore-and-summary step after at most total_tests runs, with or  *)
(* without interruption.                                                   *)
C27_Original ==
    /\ [](pc = "polling" => <>(pc # "polling"))
    /\ <>(pc = "done")
    /\ [](Len(runs) <= total_tests)

(* C27 amended: the session always terminates; when the initial settings   *)
(* cannot be applied it exits with status 1 before the first run, and      *)
(* otherwise every run ends and the sweep reaches its final restore step   *)
(* after at most total_tests runs, with or without interruption.           *)
C27_Termination ==
    /\ [](pc = "polling" => <>(pc # "polling"))
    /\ <>(pc \in {"done", "exited"})
    /\ [](pc = "exited" => (step.kind = "initial_apply" /\ exit_code = 1 /\ runs = <<>>))
    /\ [](pc \in {"run_test", "polling", "restore"} => <>(pc = "done"))
    /\ [](Len(runs) <= total_tests)

C27_Witness ==
    /\ ~monitor_mode
    /\ pc = "done"
    /\ ~is_interrupted
    /\ total_tests = 3
    /\ Len(runs) = 3
    /\ \A k \in 1..3 : runs[k].started /\ runs[k].average = NoAverage

====
